---- MODULE Spec2Model ----
(***************************************************************************)
(* A model of angular-setup (src/index.js): the token store kept on        *)
(* $rootScope, the check()/refresh() loop installed by auth(), the         *)
(* $stateChangeStart listener installed by defaultRun, and the two         *)
(* functions the listener calls, onStateChange and authenticateState.      *)
(***************************************************************************)
EXTENDS Integers, Sequences, FiniteSets, TLC

\* ------------------------------------------------------------ bounds
\* longest data.claims list of a target state
MaxClaims == 2
\* longest token.claims list of a token
MaxTokenClaims == 2
\* number of refresh requests issued before the timer is no longer followed
MaxRequests == 3

\* ------------------------------------------------------------ JavaScript values
\* A primitive is a record of its type and its textual form, so that values of
\* different types can be compared the way JavaScript compares them.
Undefined == [kind |-> "undefined", repr |-> "undefined"]
Str(s) == [kind |-> "string", repr |-> s]
Num(s) == [kind |-> "number", repr |-> s]
Bool(b) == [kind |-> "boolean", repr |-> IF b THEN "true" ELSE "false"]

\* ToBoolean, as used by `!x`, `if (x)` and `x || y`
Truthy(v) ==
  CASE v.kind = "undefined" -> FALSE
    [] v.kind = "boolean" -> v.repr = "true"
    [] v.kind = "string" -> v.repr # ""
    [] v.kind = "number" -> v.repr \notin {"0", "NaN"}
    [] OTHER -> TRUE

\* ToString, as used by `'...' + x`
ToStr(v) == v.repr

\* ToNumber of a primitive, as the textual form of the resulting number
ToNumber(v) ==
  CASE v.kind = "number" -> v.repr
    [] v.kind = "boolean" -> (IF v.repr = "true" THEN "1" ELSE "0")
    [] v.kind = "string" ->
         (CASE v.repr = "" -> "0"
            [] v.repr \in {"0", "1", "100", "200"} -> v.repr
            [] OTHER -> "NaN")
    [] OTHER -> "NaN"

\* a === b on primitives
StrictEq(a, b) == a.kind = b.kind /\ a.repr = b.repr /\ a.repr # "NaN"

\* a == b on primitives (abstract equality: numbers, strings and booleans are
\* compared as numbers when their types differ; undefined equals only itself)
LooseEq(a, b) ==
  IF a.kind = b.kind THEN a.repr = b.repr /\ ~(a.kind = "number" /\ a.repr = "NaN")
  ELSE IF a.kind = "undefined" \/ b.kind = "undefined" THEN FALSE
  ELSE ToNumber(a) = ToNumber(b) /\ ToNumber(a) # "NaN"

\* an array-valued property: present with its items, or missing
Arr(items) == [kind |-> "array", items |-> items]
NoArray == [kind |-> "undefined", items |-> <<>>]

\* ------------------------------------------------------------ tokens
Claim(t, v) == [type |-> t, value |-> v]
Tok(e, cs) == [kind |-> "object", expires_at |-> e, claims |-> Arr(cs)]
\* no token: $rootScope.token was never set, or getToken() returned nothing
UndefinedToken == [kind |-> "undefined", expires_at |-> Undefined, claims |-> NoArray]
\* the object literal {} of check(): no expires_at, no claims property
EmptyObject == [kind |-> "object", expires_at |-> Undefined, claims |-> NoArray]

TruthyTok(t) == t.kind = "object"

\* ------------------------------------------------------------ target states
Req(t, v, r, s) == [type |-> t, value |-> v, redirect |-> r, state |-> s]
Data(a, cs, ti) == [kind |-> "object", authenticate |-> a, claims |-> cs, title |-> ti]
NoData == [kind |-> "undefined", authenticate |-> Undefined, claims |-> NoArray,
           title |-> Undefined]
\* a state name is a string kept as its sequence of characters
Name(chars) == [kind |-> "string", chars |-> chars]
NoName == [kind |-> "undefined", chars |-> <<>>]
State(n, u, d) == [name |-> n, url |-> u, data |-> d]

\* sequences over S of length at most n
SeqsUpTo(S, n) == UNION {[1..k -> S] : k \in 0..n}

\* ------------------------------------------------------------ onStateChange
\* mutant: name.replace('.', '-'), only the first '.' becomes '-'
RECURSIVE replaceDots_FirstOnly(_)
replaceDots_FirstOnly(chars) ==
  IF chars = <<>> THEN <<>>
  ELSE IF Head(chars) = "." THEN <<"-">> \o Tail(chars)
  ELSE <<Head(chars)>> \o replaceDots_FirstOnly(Tail(chars))

\* name.replace(/\./g, '-'): every '.' of the name becomes '-'
RECURSIVE replaceDots(_)
replaceDots(chars) ==
  IF chars = <<>> THEN <<>>
  ELSE <<IF Head(chars) = "." THEN "-" ELSE Head(chars)>> \o replaceDots(Tail(chars))

\* `!toState.name`: a missing name and the empty string are falsy
hasName(toState) == toState.name.kind = "string" /\ toState.name.chars # <<>>

\* `toState.data && toState.data.title`
hasTitle(toState) == toState.data.kind = "object" /\ Truthy(toState.data.title)

\* onStateChange(name, toState, $rootScope): the pair of document.title and
\* $rootScope.stateName it leaves, given the pair it finds
onStateChange(toState, scope) ==
  IF ~hasName(toState) THEN scope
  ELSE [title |-> IF hasTitle(toState) THEN toState.data.title ELSE scope.title,
        stateName |-> Name(replaceDots(toState.name.chars))]

\* ------------------------------------------------------------ authenticateState
\* The running state of one call: whether event.preventDefault() was called,
\* the redirects issued in order (window.location = ..., $state.go(...)), the
\* error thrown if any, the indices of the requirements whose callback was
\* invoked (visited) and of those matched against the token (evaluated).
NoResult == [prevented |-> FALSE, redirects |-> <<>>, error |-> "none",
             claimFailed |-> FALSE, visited |-> <<>>, evaluated |-> <<>>]

\* `var data = toState.data || {}; var authenticate = data.authenticate`
authenticateOf(toState) ==
  IF toState.data.kind = "object" THEN toState.data.authenticate ELSE Undefined

\* mutant: only an explicit false switches the guard off
requiresAuth_UnlessFalse(toState) == authenticateOf(toState) # Bool(FALSE)

\* `if (!authenticate) return`: the state asks for authentication
requiresAuth(toState) == Truthy(authenticateOf(toState))

\* `var claims = data.claims || []`
claimsOf(toState) ==
  IF toState.data.kind = "object" /\ toState.data.claims.kind = "array"
  THEN toState.data.claims.items ELSE <<>>

\* mutant: the login redirect forgets the destination
loginUrl_NoTarget(toState) == "/login"

\* `'/login?redirect=' + toState.url`
loginUrl(toState) == "/login?redirect=" \o ToStr(toState.url)

\* mutant: `||` in place of `&&`
claimMatches_Either(claim, c) ==
  LooseEq(claim.type, c.type) \/ LooseEq(claim.value, c.value)

\* `claim.type == c.type && claim.value == c.value`
claimMatches(claim, c) == LooseEq(claim.type, c.type) /\ LooseEq(claim.value, c.value)

\* token.claims.forEach(function(c){ if (found) return; if (match) found = true })
RECURSIVE tokenClaimsForEach(_, _, _, _)
tokenClaimsForEach(claim, items, i, found) ==
  IF i > Len(items) THEN found
  ELSE tokenClaimsForEach(claim, items, i + 1,
                          IF found THEN TRUE ELSE claimMatches(claim, items[i]))

\* mutant: the claimFailed guard is missing
skipsClaim_Never(st) == FALSE

\* `if (claimFailed) return`: a requirement after a failed one is skipped
skipsClaim(st) == st.claimFailed

\* `self.$state`: authenticateState is a module-level function with no `self`
\* of its own, so `self` is the global object (window.self), and nothing in
\* the source puts a $state on it
selfState == Undefined

\* `self.$state.go(claim.state)` after event.preventDefault()
stateGo(st, claim) ==
  IF selfState.kind = "undefined"
  THEN [st EXCEPT !.prevented = TRUE, !.error = "TypeError:go"]
  ELSE [st EXCEPT !.prevented = TRUE,
                  !.redirects = Append(@, [via |-> "go", to |-> ToStr(claim.state)])]

\* mutant: the missing fallback is passed over in silence
throwUnspecified_Silent(st) == st

\* `throw new Error('somebody didnt specify a claim.state or claim.redirect')`
throwUnspecified(st) == [st EXCEPT !.error = "Error:unspecified"]

\* the body of the callback given to claims.forEach, for requirement i
claimCallback(token, claim, i, st0) ==
  LET st == [st0 EXCEPT !.visited = Append(@, i)] IN
  IF skipsClaim(st) THEN st
  ELSE IF token.claims.kind # "array"
  THEN \* token.claims is undefined: `token.claims.forEach` throws
       [st EXCEPT !.evaluated = Append(@, i), !.error = "TypeError:forEach"]
  ELSE LET ev == [st EXCEPT !.evaluated = Append(@, i)] IN
       IF tokenClaimsForEach(claim, token.claims.items, 1, FALSE) THEN ev
       ELSE LET failed == [ev EXCEPT !.claimFailed = TRUE] IN
            IF Truthy(claim.redirect)
            THEN [failed EXCEPT !.prevented = TRUE,
                    !.redirects = Append(@, [via |-> "location",
                                             to |-> ToStr(claim.redirect)])]
            ELSE IF Truthy(claim.state) THEN stateGo(failed, claim)
            ELSE throwUnspecified(failed)

\* claims.forEach(callback): every element in order; a throw ends the loop
RECURSIVE claimsForEach(_, _, _, _)
claimsForEach(token, claims, i, st) ==
  IF i > Len(claims) \/ st.error # "none" THEN st
  ELSE claimsForEach(token, claims, i + 1, claimCallback(token, claims[i], i, st))

\* authenticateState(token, toState, event)
authenticateState(token, toState) ==
  IF ~requiresAuth(toState) THEN NoResult
  ELSE IF ~TruthyTok(token)
  THEN [NoResult EXCEPT !.prevented = TRUE,
          !.redirects = <<[via |-> "location", to |-> loginUrl(toState)]>>]
  ELSE claimsForEach(token, claimsOf(toState), 1, NoResult)

\* ------------------------------------------------------------ check
\* `if (token.expires_at === origToken.expires_at) return`
sameExpiry(t, o) == StrictEq(t.expires_at, o.expires_at)

\* mutant: an absent candidate leaves the stored token alone
check_KeepsOnAbsent(orig, cand) ==
  IF ~TruthyTok(cand) THEN orig
  ELSE LET o == IF TruthyTok(orig) THEN orig ELSE EmptyObject
       IN IF sameExpiry(cand, o) THEN orig ELSE cand

\* check(): the value of $rootScope.token it leaves, given the stored token
\* and the candidate getToken() returned
check(orig, cand) ==
  IF ~TruthyTok(cand) /\ ~TruthyTok(orig) THEN orig
  ELSE LET t == IF TruthyTok(cand) THEN cand ELSE EmptyObject
           o == IF TruthyTok(orig) THEN orig ELSE EmptyObject
       IN IF sameExpiry(t, o) THEN orig ELSE t

\* `$http.post('/auth/refresh')`: one more request in flight
refresh(reqs) == Append(reqs, "pending")

\* mutant: `.then(check, check)`, the continuation also runs on failure
thenRunsCheck_Always(outcome) == TRUE

\* `.then(check)`: check is the continuation of a fulfilled request only
thenRunsCheck(outcome) == outcome = "resolved"

\* ------------------------------------------------------------ inputs
role == Str("role")
level == Str("level")

\* the claims a token may hold
TokenClaimSet == {Claim(role, Str("1")), Claim(role, Str("admin")), Claim(level, Str("1"))}

\* the requirements a state may declare: a pair to hold, and as fallback a
\* redirect, a state, both or neither
Requirements ==
  UNION {{Req(p[1], p[2], r, s) : r \in {Undefined, p[3]}, s \in {Undefined, Str("home")}} :
           p \in {<<role, Str("1"), Str("/denied")>>,
                   <<level, Num("1"), Str("/upgrade")>>}}

\* the values the token store can hold when a navigation starts
GuardTokens ==
  {UndefinedToken, EmptyObject}
    \cup {Tok(Num("100"), cs) : cs \in SeqsUpTo(TokenClaimSet, MaxTokenClaims)}

\* the target states the guard is checked on
GuardStates ==
  {State(Name(<<"a", ".", "b">>), Str("/secret"), NoData)}
    \cup {State(Name(<<"a", ".", "b">>), u, Data(a, cs, Undefined)) :
            u \in {Str("/secret"), Undefined},
            a \in {Bool(TRUE), Bool(FALSE), Undefined},
            cs \in {NoArray} \cup {Arr(l) : l \in SeqsUpTo(Requirements, MaxClaims)}}

\* the tokens getToken() returns in the whole-program specification
AccessorTokens ==
  {UndefinedToken,
   Tok(Num("100"), <<Claim(role, Str("1"))>>),
   Tok(Num("100"), <<>>),
   Tok(Num("200"), <<Claim(role, Str("admin"))>>)}

\* the router's root state, $state.current before any transition
RootState == State(Name(<<>>), Str("^"), NoData)

\* the target states of the whole-program specification
NavStates ==
  {RootState,
   State(NoName, Undefined, Data(Undefined, NoArray, Str("Orphan"))),
   State(Name(<<"a">>), Str("/a"), NoData),
   State(Name(<<"a", ".", "b">>), Str("/a/b"), Data(Undefined, NoArray, Str(""))),
   State(Name(<<"a", ".", "b", ".", "c">>), Str("/a/b/c"),
         Data(Bool(FALSE), NoArray, Str("Deep"))),
   State(Name(<<"s">>), Str("/secret"), Data(Bool(TRUE), NoArray, Undefined))}
    \cup {State(Name(<<"s">>), Str("/secret"), Data(Bool(TRUE), Arr(l), Str("Secret"))) :
            l \in {<<Req(role, Str("1"), Str("/denied"), Undefined)>>,
                   <<Req(role, Str("1"), Undefined, Str("home"))>>,
                   <<Req(role, Str("1"), Undefined, Undefined)>>,
                   <<Req(role, Str("admin"), Str("/denied"), Undefined),
                     Req(role, Str("1"), Str("/upgrade"), Undefined)>>}}

\* ------------------------------------------------------------ builder
\* a callback pushed on this.configs or this.runs: what pushed it, and its
\* rank among all the callbacks registered
Callback(k, n) == [kind |-> k, id |-> n]

\* mutant: the run callbacks are invoked before the config callbacks
doneOrder_RunsFirst(cfgs, rns) ==
  <<Callback("defaultConfig", 0)>> \o rns \o cfgs \o <<Callback("defaultRun", 0)>>

\* done(): defaultConfig, configs.forEach, runs.forEach, defaultRun
doneOrder(cfgs, rns) ==
  <<Callback("defaultConfig", 0)>> \o cfgs \o rns \o <<Callback("defaultRun", 0)>>

\* the callback pushed by auth() registers the auth run block
isAuth(cb) == cb.kind = "auth"

\* mutant: defaultRun is invoked before the callbacks of this.runs
registeredRunBlocks_DefaultFirst(rns) ==
  <<"default">> \o [k \in 1..Len(SelectSeq(rns, isAuth)) |-> "auth"]

\* the run blocks the module holds after done(), in registration order: one
\* for each callback of auth(), in the order of this.runs, then the one of
\* defaultRun
registeredRunBlocks(rns) ==
  [k \in 1..Len(SelectSeq(rns, isAuth)) |-> "auth"] \o <<"default">>

\* ------------------------------------------------------------ state
VARIABLES
  token,      \* $rootScope.token
  title,      \* document.title
  stateName,  \* $rootScope.stateName
  current,    \* $state.current when the run blocks execute
  runQueue,   \* the run blocks angular has still to execute, in order
  listening,  \* the $stateChangeStart listener is registered
  intervalOn, \* $interval(refresh, 60 * 1000) is registered
  requests,   \* the refresh requests issued, each pending, resolved or rejected
  ticks,      \* the timer ticks so far
  checkLog,   \* what ran check(), in order: 0 at setup, else the request's index
  lastCheck,  \* the stored token and the candidate of the latest check()
  event,      \* the navigation-start event being dispatched, with its outcome
  configs,    \* this.configs: the callbacks pushed by config() and state()
  runs,       \* this.runs: the callbacks pushed by run() and auth()
  invoked,    \* the callbacks done() has invoked, in order
  built       \* done() has been called

builder == <<configs, runs, invoked, built>>

vars == <<token, title, stateName, current, runQueue, listening, intervalOn,
          requests, ticks, checkLog, lastCheck, event, configs, runs, invoked, built>>

NoCheck == [ran |-> FALSE, orig |-> UndefinedToken, cand |-> UndefinedToken]
NoEvent == [active |-> FALSE, toState |-> RootState, token |-> UndefinedToken,
            result |-> NoResult]

\* the module as done() leaves it after auth(getToken): the auth run block is
\* registered before the default run block
Init ==
  /\ token = UndefinedToken
  /\ title = Str("index")
  /\ stateName = NoName
  /\ current \in {RootState, State(Name(<<"a">>), Str("/a"), NoData)}
  /\ runQueue = <<"auth", "default">>
  /\ listening = FALSE
  /\ intervalOn = FALSE
  /\ requests = <<>>
  /\ ticks = 0
  /\ checkLog = <<>>
  /\ lastCheck = NoCheck
  /\ event = NoEvent
  /\ configs = <<>>
  /\ runs = <<Callback("auth", 1)>>
  /\ invoked = doneOrder(configs, runs)
  /\ built = TRUE

\* one call of check() on behalf of `by`, getToken() returning cand
runCheck(by, cand) ==
  /\ token' = check(token, cand)
  /\ lastCheck' = [ran |-> TRUE, orig |-> token, cand |-> cand]
  /\ checkLog' = Append(checkLog, by)

\* the run block of auth(): check(); refresh(); $interval(refresh, 60 * 1000)
AuthRunBlock ==
  /\ runQueue # <<>> /\ Head(runQueue) = "auth"
  /\ runQueue' = Tail(runQueue)
  /\ \E cand \in AccessorTokens : runCheck(0, cand)
  /\ requests' = refresh(requests)
  /\ intervalOn' = TRUE
  /\ UNCHANGED <<title, stateName, current, listening, ticks, event>>
  /\ UNCHANGED builder

\* the run block of defaultRun: onStateChange on $state.current, then the
\* listener is registered
DefaultRunBlock ==
  /\ runQueue # <<>> /\ Head(runQueue) = "default"
  /\ runQueue' = Tail(runQueue)
  /\ LET scope == onStateChange(current, [title |-> title, stateName |-> stateName])
     IN title' = scope.title /\ stateName' = scope.stateName
  /\ listening' = TRUE
  /\ UNCHANGED <<token, current, intervalOn, requests, ticks, checkLog, lastCheck, event>>
  /\ UNCHANGED builder

\* a tick of the $interval timer calls refresh()
IntervalTick ==
  /\ intervalOn
  /\ ~event.active
  /\ Len(requests) < MaxRequests
  /\ requests' = refresh(requests)
  /\ ticks' = ticks + 1
  /\ UNCHANGED <<token, title, stateName, current, runQueue, listening, intervalOn,
                 checkLog, lastCheck, event>>
  /\ UNCHANGED builder

\* request r settles; its promise runs the continuation given to then()
RefreshSettles(r, outcome) ==
  /\ r \in 1..Len(requests) /\ requests[r] = "pending"
  /\ ~event.active
  /\ requests' = [requests EXCEPT ![r] = outcome]
  /\ IF thenRunsCheck(outcome)
     THEN \E cand \in AccessorTokens : runCheck(r, cand)
     ELSE UNCHANGED <<token, lastCheck, checkLog>>
  /\ UNCHANGED <<title, stateName, current, runQueue, listening, intervalOn, ticks, event>>
  /\ UNCHANGED builder

\* mutant: a navigation the guard cancels also clears the stored token
StateChangeStart_ClearsToken(toState) ==
  /\ listening
  /\ ~event.active
  /\ LET scope == onStateChange(toState, [title |-> title, stateName |-> stateName])
     IN title' = scope.title /\ stateName' = scope.stateName
  /\ event' = [active |-> TRUE, toState |-> toState, token |-> token,
               result |-> authenticateState(token, toState)]
  /\ token' = IF authenticateState(token, toState).prevented THEN UndefinedToken ELSE token
  /\ UNCHANGED <<current, runQueue, listening, intervalOn, requests, ticks,
                 checkLog, lastCheck>>
  /\ UNCHANGED builder

\* mutant: authenticateState runs first, so that onStateChange is not reached
\* when the guard throws
StateChangeStart_AuthFirst(toState) ==
  /\ listening
  /\ ~event.active
  /\ LET scope == IF authenticateState(token, toState).error # "none"
                  THEN [title |-> title, stateName |-> stateName]
                  ELSE onStateChange(toState, [title |-> title, stateName |-> stateName])
     IN title' = scope.title /\ stateName' = scope.stateName
  /\ event' = [active |-> TRUE, toState |-> toState, token |-> token,
               result |-> authenticateState(token, toState)]
  /\ UNCHANGED <<token, current, runQueue, listening, intervalOn, requests, ticks,
                 checkLog, lastCheck>>
  /\ UNCHANGED builder

\* the $stateChangeStart listener: onStateChange, then authenticateState on
\* the stored token
StateChangeStart(toState) ==
  /\ listening
  /\ ~event.active
  /\ LET scope == onStateChange(toState, [title |-> title, stateName |-> stateName])
     IN title' = scope.title /\ stateName' = scope.stateName
  /\ event' = [active |-> TRUE, toState |-> toState, token |-> token,
               result |-> authenticateState(token, toState)]
  /\ UNCHANGED <<token, current, runQueue, listening, intervalOn, requests, ticks,
                 checkLog, lastCheck>>
  /\ UNCHANGED builder

\* the listener has returned (or thrown) and the dispatch of the event is over
ListenerReturn ==
  /\ event.active
  /\ event' = NoEvent
  /\ UNCHANGED <<token, title, stateName, current, runQueue, listening, intervalOn,
                 requests, ticks, checkLog, lastCheck>>
  /\ UNCHANGED builder

Next ==
  \/ AuthRunBlock
  \/ DefaultRunBlock
  \/ IntervalTick
  \/ \E r \in 1..MaxRequests, outcome \in {"resolved", "rejected"} : RefreshSettles(r, outcome)
  \/ \E toState \in NavStates : StateChangeStart(toState)
  \/ ListenerReturn

Spec == Init /\ [][Next]_vars

\* The guard alone: the listener is registered, the store holds any value it
\* can hold, and navigation-start events arrive for every target state.
InitGuard ==
  /\ token \in GuardTokens
  /\ title = Str("index")
  /\ stateName = NoName
  /\ current = RootState
  /\ runQueue = <<>>
  /\ listening = TRUE
  /\ intervalOn = FALSE
  /\ requests = <<>>
  /\ ticks = 0
  /\ checkLog = <<>>
  /\ lastCheck = NoCheck
  /\ event = NoEvent
  /\ configs = <<>>
  /\ runs = <<>>
  /\ invoked = doneOrder(configs, runs)
  /\ built = TRUE

NextGuard ==
  \/ \E toState \in GuardStates : StateChangeStart(toState)
  \/ ListenerReturn

SpecGuard == InitGuard /\ [][NextGuard]_vars

\* ------------------------------------------------------------ assembly
\* bound: the calls of config(), state(), run() and auth() before done()
MaxCalls == 3

\* the state after `AngularSetup(name)`: nothing registered, nothing run
InitBuild ==
  /\ token = UndefinedToken
  /\ title = Str("index")
  /\ stateName = NoName
  /\ current \in {RootState, State(Name(<<"a">>), Str("/a"), NoData)}
  /\ runQueue = <<>>
  /\ listening = FALSE
  /\ intervalOn = FALSE
  /\ requests = <<>>
  /\ ticks = 0
  /\ checkLog = <<>>
  /\ lastCheck = NoCheck
  /\ event = NoEvent
  /\ configs = <<>>
  /\ runs = <<>>
  /\ invoked = <<>>
  /\ built = FALSE

running == <<token, title, stateName, current, runQueue, listening, intervalOn,
             requests, ticks, checkLog, lastCheck, event>>

\* the rank of the next callback registered
nextId == Len(configs) + Len(runs) + 1

\* config(fn): this.configs.push(fn)
ConfigCall ==
  /\ ~built /\ nextId <= MaxCalls
  /\ configs' = Append(configs, Callback("config", nextId))
  /\ UNCHANGED <<runs, invoked, built, running>>

\* state(name, opts): this.configs.push(function(module) {...})
StateCall ==
  /\ ~built /\ nextId <= MaxCalls
  /\ configs' = Append(configs, Callback("state", nextId))
  /\ UNCHANGED <<runs, invoked, built, running>>

\* run(fn): this.runs.push(fn)
RunCall ==
  /\ ~built /\ nextId <= MaxCalls
  /\ runs' = Append(runs, Callback("run", nextId))
  /\ UNCHANGED <<configs, invoked, built, running>>

\* auth(getToken): this.runs.push(function(module) {...})
AuthCall ==
  /\ ~built /\ nextId <= MaxCalls
  /\ runs' = Append(runs, Callback("auth", nextId))
  /\ UNCHANGED <<configs, invoked, built, running>>

\* done(): the callbacks are invoked and the run blocks they register are
\* left for angular to execute
Done ==
  /\ ~built
  /\ built' = TRUE
  /\ invoked' = doneOrder(configs, runs)
  /\ runQueue' = registeredRunBlocks(runs)
  /\ UNCHANGED <<configs, runs, token, title, stateName, current, listening, intervalOn,
                 requests, ticks, checkLog, lastCheck, event>>

\* The builder alone: any calls of config, state, run and auth, then done().
NextBuild == ConfigCall \/ StateCall \/ RunCall \/ AuthCall \/ Done

SpecBuild == InitBuild /\ [][NextBuild]_vars

\* The program from its construction, with auth() called at most once before
\* done(), followed by everything the module does once angular runs it.
NextSetup ==
  \/ AuthCall /\ runs = <<>>
  \/ Done
  \/ Next

SpecSetup == InitBuild /\ [][NextSetup]_vars

\* ------------------------------------------------------------ properties
\* The event being dispatched: its target state's data, the token the guard
\* was given and what the guard did.
evData == event.toState.data
evToken == event.token
evResult == event.result
\* data.authenticate as declared (undefined when the state has no data)
evAuthenticate == IF evData.kind = "object" THEN evData.authenticate ELSE Undefined
\* data.claims as declared (no requirement when missing)
evClaims == IF evData.kind = "object" /\ evData.claims.kind = "array"
            THEN evData.claims.items ELSE <<>>
\* the entries of the token's claim collection (none when it has no collection)
evHeld == IF evToken.claims.kind = "array" THEN evToken.claims.items ELSE <<>>

Range(q) == {q[k] : k \in 1..Len(q)}
UpTo(n) == [k \in 1..n |-> k]

\* requirement rq is met: some held claim equals it (==) in type and in value
Met(rq) == \E c \in Range(evHeld) : LooseEq(rq.type, c.type) /\ LooseEq(rq.value, c.value)
\* requirement rq has a held claim identical to it in type and in value
MetIdentically(rq) == \E c \in Range(evHeld) : rq.type = c.type /\ rq.value = c.value
Unmet == {i \in 1..Len(evClaims) : ~Met(evClaims[i])}
FirstUnmet == CHOOSE i \in Unmet : \A j \in Unmet : i <= j

\* an event for a state that asks for authentication, with a token stored
Guarded == event.active /\ Truthy(evAuthenticate) /\ evToken.kind = "object"

\* the guard left the navigation alone
Allowed ==
  /\ ~evResult.prevented
  /\ evResult.redirects = <<>>
  /\ evResult.error = "none"

\* C1: when the target state's data.authenticate is falsy (false, missing, or
\* no data at all) the guard does not cancel the event, issues no redirect,
\* raises no error and evaluates no claim requirement, whatever the token and
\* whatever data.claims holds.
C1_FalsyAuthenticateNeverGuarded ==
  (event.active /\ evAuthenticate \in {Undefined, Bool(FALSE)})
    => /\ Allowed
       /\ evResult.visited = <<>>
       /\ evResult.evaluated = <<>>

\* a state with authenticate false and a fallback-less requirement the stored
\* token does not meet was let through
C1_Witness ==
  /\ event.active /\ evAuthenticate = Bool(FALSE) /\ evToken.kind = "object"
  /\ \E i \in Unmet : ~Truthy(evClaims[i].redirect) /\ ~Truthy(evClaims[i].state)
  /\ Allowed

\* C2: when data.authenticate is true and no token is stored, the guard
\* cancels the event, sets the location to '/login?redirect=' followed by the
\* target state's url, and evaluates no claim requirement.
C2_NoTokenRedirectsToLogin ==
  (event.active /\ Truthy(evAuthenticate) /\ evToken.kind = "undefined")
    => /\ evResult.prevented
       /\ evResult.redirects =
            <<[via |-> "location", to |-> "/login?redirect=" \o event.toState.url.repr]>>
       /\ evResult.error = "none"
       /\ evResult.visited = <<>>
       /\ evResult.evaluated = <<>>

\* a state with url /secret and a fallback-less requirement was sent to login
C2_Witness ==
  /\ event.active /\ evAuthenticate = Bool(TRUE) /\ evToken = UndefinedToken
  /\ event.toState.url = Str("/secret")
  /\ \E i \in 1..Len(evClaims) : ~Truthy(evClaims[i].redirect) /\ ~Truthy(evClaims[i].state)
  /\ evResult.redirects = <<[via |-> "location", to |-> "/login?redirect=/secret"]>>

\* C3: with authenticate true and a token stored, the navigation is left alone
\* when every requirement has a held claim of equal type and equal value,
\* whatever the order of either list (no requirement counts as satisfied), and
\* it is not left alone when some requirement has no held claim equal to it in
\* both type and value. Equality is the == of the guard.
C3_SatisfiedClaimsAllow ==
  Guarded =>
    /\ (\A i \in 1..Len(evClaims) : MetIdentically(evClaims[i])) => Allowed
    /\ (\A i \in 1..Len(evClaims) : Met(evClaims[i])) <=> Allowed

\* two requirements were met by two held claims listed in the opposite order
C3_Witness ==
  /\ Guarded /\ Len(evClaims) = 2 /\ Len(evHeld) = 2
  /\ LooseEq(evClaims[1].type, evHeld[2].type) /\ LooseEq(evClaims[1].value, evHeld[2].value)
  /\ LooseEq(evClaims[2].type, evHeld[1].type) /\ LooseEq(evClaims[2].value, evHeld[1].value)
  /\ ~LooseEq(evClaims[1].type, evHeld[1].type)
  /\ Allowed

\* C4: with authenticate true and a token stored, when the first unmet
\* requirement has redirect set the event is canceled and the location is set
\* to that redirect; when it has state set and no redirect the event is
\* canceled and state.go to that state is performed, without an error.
C4_UnmetClaimTakesItsFallback ==
  (Guarded /\ evToken.claims.kind = "array" /\ Unmet # {}) =>
    LET rq == evClaims[FirstUnmet] IN
    /\ Truthy(rq.redirect) =>
         /\ evResult.prevented
         /\ evResult.redirects = <<[via |-> "location", to |-> rq.redirect.repr]>>
         /\ evResult.error = "none"
    /\ (~Truthy(rq.redirect) /\ Truthy(rq.state)) =>
         /\ evResult.prevented
         /\ evResult.redirects = <<[via |-> "go", to |-> rq.state.repr]>>
         /\ evResult.error = "none"

\* C5: with authenticate true and a token stored, a first unmet requirement
\* with neither redirect nor state ends the call in an error (the
\* configuration error when the token has a claim collection), with no
\* cancellation, no redirect and no later requirement visited or evaluated.
C5_MissingFallbackThrows ==
  (Guarded /\ Unmet # {}
     /\ ~Truthy(evClaims[FirstUnmet].redirect) /\ ~Truthy(evClaims[FirstUnmet].state))
    => /\ evResult.error # "none"
       /\ evToken.claims.kind = "array" => evResult.error = "Error:unspecified"
       /\ ~evResult.prevented
       /\ evResult.redirects = <<>>
       /\ evResult.visited = UpTo(FirstUnmet)
       /\ evResult.evaluated = UpTo(FirstUnmet)

\* a fallback-less unmet requirement, followed by an unmet one with a
\* redirect, threw the configuration error
C5_Witness ==
  /\ Guarded /\ Len(evClaims) = 2 /\ Unmet = {1, 2}
  /\ ~Truthy(evClaims[1].redirect) /\ ~Truthy(evClaims[1].state)
  /\ Truthy(evClaims[2].redirect)
  /\ evResult.error = "Error:unspecified"

\* the redirects of one call, a state.go that failed included
Mechanisms ==
  Len(evResult.redirects) + (IF evResult.error = "TypeError:go" THEN 1 ELSE 0)

\* C7: one call of the guard uses at most one redirect mechanism, at most
\* once: login redirect, claim redirect and state.go together happen at most
\* once, for any token and any list of requirements.
C7_AtMostOneRedirect == event.active => Mechanisms <= 1

\* two unmet requirements, the first with both fallbacks, gave one redirect
C7_Witness ==
  /\ Guarded /\ Unmet = {1, 2}
  /\ Truthy(evClaims[1].redirect) /\ Truthy(evClaims[1].state)
  /\ Truthy(evClaims[2].redirect)
  /\ Mechanisms = 1

\* C8 as stated: when two or more requirements are unmet, each of them is
\* evaluated and has its own side effect.
C8_EveryFailingClaimActs ==
  (Guarded /\ evToken.claims.kind = "array" /\ Cardinality(Unmet) >= 2)
    => /\ Unmet \subseteq Range(evResult.evaluated)
       /\ Mechanisms + (IF evResult.error = "Error:unspecified" THEN 1 ELSE 0)
            = Cardinality(Unmet)

\* C8 as amended: the loop visits every requirement unless an error ends it,
\* but only the requirements up to the first unmet one are evaluated, and that
\* one alone has a side effect (its redirect, its state.go attempt or the
\* configuration error).
C8_OnlyFirstFailingClaimActs ==
  (Guarded /\ evToken.claims.kind = "array" /\ Unmet # {}) =>
    /\ evResult.evaluated = UpTo(FirstUnmet)
    /\ evResult.error = "none" => evResult.visited = UpTo(Len(evClaims))
    /\ evResult.error # "none" => evResult.visited = UpTo(FirstUnmet)
    /\ Mechanisms + (IF evResult.error = "Error:unspecified" THEN 1 ELSE 0) = 1
    /\ Truthy(evClaims[FirstUnmet].redirect) =>
         evResult.redirects =
           <<[via |-> "location", to |-> evClaims[FirstUnmet].redirect.repr]>>

\* two unmet requirements with different redirects: the second was visited
\* and not evaluated, and the location is the first one's redirect
C8_Witness ==
  /\ Guarded /\ Unmet = {1, 2}
  /\ Truthy(evClaims[1].redirect) /\ Truthy(evClaims[2].redirect)
  /\ evClaims[1].redirect # evClaims[2].redirect
  /\ evResult.visited = <<1, 2>> /\ evResult.evaluated = <<1>>
  /\ evResult.redirects = <<[via |-> "location", to |-> evClaims[1].redirect.repr]>>

\* ------------------------------------------------------------ token store
\* the record the spec has check() store for an absent candidate: a token
\* with an empty claim collection
EmptyClaimsToken == [kind |-> "object", expires_at |-> Undefined, claims |-> Arr(<<>>)]

\* C6: check() leaves the store unchanged when stored token and candidate are
\* both absent, and when both are present with equal expires_at; in every
\* other case it stores the candidate itself when present and an empty-claims
\* token record when the candidate is absent.
C6_CheckUpdatesStore ==
  lastCheck.ran =>
    LET o == lastCheck.orig
        c == lastCheck.cand
    IN IF o.kind = "undefined" /\ c.kind = "undefined" THEN token = o
       ELSE IF o.kind = "object" /\ c.kind = "object" /\ o.expires_at = c.expires_at
       THEN token = o
       ELSE IF c.kind = "object" THEN token = c
       ELSE token = EmptyClaimsToken

\* The change detection of C6 alone, whatever record stands for the absent
\* candidate: the store is left unchanged exactly in the two cases named, and
\* otherwise holds the candidate when present and a record without expires_at
\* when absent.
CheckChangeDetection ==
  lastCheck.ran =>
    LET o == lastCheck.orig
        c == lastCheck.cand
    IN IF o.kind = "undefined" /\ c.kind = "undefined" THEN token = o
       ELSE IF o.kind = "object" /\ c.kind = "object" /\ o.expires_at = c.expires_at
       THEN token = o
       ELSE IF c.kind = "object" THEN token = c
       ELSE token.kind = "object" /\ token.expires_at = Undefined

\* C9: every token record in the store carries a claim collection, so that
\* for a state with authenticate true and at least one requirement the guard
\* ends in exactly one of: navigation allowed, event canceled with one
\* redirect, or the configuration error of a fallback-less requirement.
C9_StoredTokenHasClaims ==
  /\ token.kind = "object" => token.claims.kind = "array"
  /\ (Guarded /\ evClaims # <<>>) =>
       \/ Allowed
       \/ evResult.prevented /\ Len(evResult.redirects) = 1 /\ evResult.error = "none"
       \/ evResult.error = "Error:unspecified" /\ ~evResult.prevented

\* the requests that were fulfilled
Resolved == {r \in 1..Len(requests) : requests[r] = "resolved"}

\* C10: the auth run block runs check() once, issues one refresh request and
\* starts the timer, which is never cancelled; every tick issues one request;
\* after the first, check() runs only for a request that was fulfilled, once
\* for each such request and not while it is pending.
C10_CheckFollowsFulfilledRefresh ==
  IF \E k \in 1..Len(runQueue) : runQueue[k] = "auth"
  THEN checkLog = <<>> /\ requests = <<>> /\ ~intervalOn /\ ticks = 0
  ELSE /\ intervalOn
       /\ Len(requests) = 1 + ticks
       /\ Len(checkLog) >= 1 /\ checkLog[1] = 0
       /\ \A k \in 2..Len(checkLog) : checkLog[k] \in Resolved
       /\ \A j, k \in 1..Len(checkLog) : checkLog[j] = checkLog[k] => j = k
       /\ \A r \in Resolved : \E k \in 2..Len(checkLog) : checkLog[k] = r

\* after two ticks, the second request was fulfilled before the first one,
\* the third failed, and check() has run for the setup, the second and the
\* first request in that order
C10_Witness ==
  /\ ticks = 2
  /\ requests = <<"resolved", "resolved", "rejected">>
  /\ checkLog = <<0, 2, 1>>

\* ------------------------------------------------------------ refresh failure
\* some pending request is rejected in this step
RejectionStep ==
  \E r \in 1..Len(requests) :
    /\ requests[r] = "pending"
    /\ Len(requests') = Len(requests)
    /\ requests'[r] = "rejected"

\* C11: a refresh request that fails runs no check() and leaves the token
\* store unchanged; the failure schedules no extra request and does not stop
\* the timer: after it a tick can still issue a request, and a fulfilled
\* request still runs check().
C11_FailedRefreshIsIgnored ==
  /\ [][RejectionStep =>
          /\ token' = token
          /\ checkLog' = checkLog
          /\ lastCheck' = lastCheck
          /\ \A q \in 1..Len(requests) : requests'[q] # requests[q] => requests[q] = "pending"
          /\ intervalOn' = intervalOn
          /\ ticks' = ticks]_vars
  /\ []((\E r \in 1..Len(requests) : requests[r] = "rejected")
          => /\ intervalOn
             /\ (Len(requests) < MaxRequests /\ ~event.active) => ENABLED IntervalTick
             /\ \A q \in 1..Len(requests) :
                  requests[q] = "pending" /\ ~event.active
                    => ENABLED RefreshSettles(q, "resolved"))
  /\ [](\A r \in 1..Len(requests) :
          /\ requests[r] = "rejected" => \A k \in 1..Len(checkLog) : checkLog[k] # r
          /\ requests[r] = "resolved" => \E k \in 1..Len(checkLog) : checkLog[k] = r)

\* the first request failed, the one of the next tick was fulfilled and ran
\* check(), and the timer can tick again
C11_Witness ==
  /\ requests = <<"rejected", "resolved">>
  /\ ticks = 1
  /\ checkLog = <<0, 2>>
  /\ ENABLED IntervalTick

\* a navigation-start event is delivered to the listener in this step
Delivery == ~event.active /\ event'.active

\* C12: the token store is written only by check(): handling a
\* navigation-start event leaves the stored token unchanged whatever the
\* outcome (allow, login redirect, claim redirect, state redirect,
\* configuration error), and the guard decides on the one token value stored
\* when the event is delivered.
C12_OnlyCheckWritesToken ==
  /\ [][token' # token
          => /\ Len(checkLog') = Len(checkLog) + 1
             /\ lastCheck'.ran /\ lastCheck'.orig = token
             /\ event' = event /\ ~event.active]_vars
  /\ [][Delivery => token' = token /\ event'.token = token]_vars
  /\ [][event.active => token' = token]_vars
  /\ [](event.active => event.token = token)

\* a claim redirect was issued for a stored token, which is still in the store
C12_Witness ==
  /\ event.active
  /\ evToken.kind = "object"
  /\ evResult.prevented
  /\ evResult.redirects = <<[via |-> "location", to |-> "/denied"]>>
  /\ lastCheck.ran
  /\ token = evToken

\* the name with each '.' replaced by '-', position by position
dashed(chars) == [i \in 1..Len(chars) |-> IF chars[i] = "." THEN "-" ELSE chars[i]]

\* the state has a name that is not the empty string
named(st) == st.name.kind = "string" /\ Len(st.name.chars) > 0

\* the state's data carry a title (a string that is not empty)
titled(st) ==
  /\ st.data.kind = "object"
  /\ st.data.title # Undefined
  /\ st.data.title # Str("")

\* C13: for a target state with a non-empty name, onStateChange sets the
\* state-name field to the name with every '.' replaced by '-' and sets the
\* document title to data.title when there is one, leaving the title
\* unchanged otherwise; for an empty or missing name it changes neither.
C13_OnStateChangeAnnotates ==
  [][Delivery =>
       LET st == event'.toState
       IN IF named(st)
          THEN /\ stateName' = Name(dashed(st.name.chars))
               /\ title' = IF titled(st) THEN st.data.title ELSE title
          ELSE /\ stateName' = stateName
               /\ title' = title]_vars

\* a name with two dots was annotated, with its title
C13_Witness ==
  /\ event.active
  /\ event.toState.name = Name(<<"a", ".", "b", ".", "c">>)
  /\ stateName = Name(<<"a", "-", "b", "-", "c">>)
  /\ title = Str("Deep")

\* the default run block executes in this step
Startup == runQueue # <<>> /\ Head(runQueue) = "default" /\ runQueue' = Tail(runQueue)

\* C14: the state annotation happens once at startup, for the router's
\* current state, and on every navigation-start event whatever the guard
\* does: the title and state name of the target state are in place also when
\* the guard cancels the event, redirects, or raises the configuration error.
C14_AnnotationIndependentOfGuard ==
  /\ [](event.active /\ named(event.toState)
          => /\ stateName = Name(dashed(event.toState.name.chars))
             /\ titled(event.toState) => title = event.toState.data.title)
  /\ [][Startup
          => /\ ~listening /\ listening'
             /\ IF named(current)
                THEN stateName' = Name(dashed(current.name.chars))
                ELSE stateName' = stateName
             /\ \A k \in 1..Len(runQueue') : runQueue'[k] # "default"]_vars
  /\ [][~Startup /\ ~Delivery => stateName' = stateName /\ title' = title]_vars

\* the guard raised the configuration error and the annotation is in place
C14_Witness ==
  /\ event.active
  /\ evResult.error = "Error:unspecified"
  /\ stateName = Name(<<"s">>)
  /\ title = Str("Secret")

\* the kinds of the callbacks pushed on this.configs and on this.runs
ConfigKinds == {"config", "state"}
RunKinds == {"run", "auth"}

\* the positions at which callback cb was invoked
invokedAt(cb) == {i \in 1..Len(invoked) : invoked[i] = cb}

\* C15: done() invokes, once each, the default config, then the callbacks of
\* config() and state() in registration order, then those of run() and auth()
\* in registration order, then the default run; whatever the interleaving of
\* the calls before done(), every config-list callback is invoked before
\* every run-list callback and each list keeps its registration order.
C15_DoneInvokesInOrder ==
  IF ~built THEN invoked = <<>>
  ELSE
    /\ Len(invoked) = Len(configs) + Len(runs) + 2
    /\ invoked[1].kind = "defaultConfig"
    /\ invoked[Len(invoked)].kind = "defaultRun"
    /\ \A i \in 2..(Len(invoked) - 1) : invoked[i].kind \in ConfigKinds \cup RunKinds
    /\ \A cb \in Range(configs) \cup Range(runs) : Cardinality(invokedAt(cb)) = 1
    /\ \A i, j \in 2..(Len(invoked) - 1) :
         i < j =>
           /\ invoked[i].kind \in RunKinds => invoked[j].kind \in RunKinds
           /\ (invoked[i].kind \in ConfigKinds) = (invoked[j].kind \in ConfigKinds)
                => invoked[i].id < invoked[j].id

\* run() was called before config() and state(), whose callbacks done()
\* invoked first
C15_Witness ==
  /\ built
  /\ Len(runs) = 1 /\ runs[1].id = 1
  /\ Len(configs) = 2 /\ configs[1].kind = "config" /\ configs[2].kind = "state"
  /\ invoked[2] = configs[1] /\ invoked[3] = configs[2] /\ invoked[4] = runs[1]

\* the latest check() found no token and the navigation leads to a state
\* whose data.authenticate is true
AbsentAtLastCheck ==
  /\ lastCheck.ran
  /\ lastCheck.cand.kind = "undefined"
  /\ event.active
  /\ evAuthenticate = Bool(TRUE)

\* C16: after a check() in which the accessor returned no token, and until a
\* later check() stores a present candidate, every navigation-start to a
\* state with data.authenticate true is cancelled and redirected to the login
\* URL, whatever the earlier checks stored.
C16_AbsentTokenRedirectsToLogin ==
  AbsentAtLastCheck
    => /\ evResult.prevented
       /\ evResult.redirects = <<[via |-> "location", to |-> loginUrl(event.toState)]>>
       /\ evResult.error = "none"

\* expires_at of a token, an absent token having none
expiryOf(t) == IF t.kind = "object" THEN t.expires_at ELSE Undefined

\* C17: after every check() the stored token's expires_at is that of the
\* candidate the accessor returned in that check (none when it returned no
\* token), in whatever order the responses of overlapping refresh requests
\* arrive: the store never reflects an older candidate.
C17_StoreFollowsLatestCandidate ==
  /\ lastCheck.ran => expiryOf(token) = expiryOf(lastCheck.cand)
  /\ ~lastCheck.ran => token = UndefinedToken /\ checkLog = <<>>

\* the second request was answered before the first, and the check() of the
\* first replaced what the check() of the second had stored
C17_Witness ==
  /\ checkLog = <<0, 2, 1>>
  /\ lastCheck.cand.kind = "object"
  /\ lastCheck.orig.kind = "object"
  /\ expiryOf(lastCheck.orig) # expiryOf(lastCheck.cand)
  /\ token = lastCheck.cand

\* auth() was called before done()
authCalled == \E k \in 1..Len(runs) : isAuth(runs[k])

\* the default run block has executed: the startup annotation is done
defaultRan == built /\ \A k \in 1..Len(runQueue) : runQueue[k] # "default"

\* C18: when auth() is called before done(), the initial check() runs before
\* the listener is registered and before the startup annotation, so that no
\* navigation-start event reaches the guard before it; a token the accessor
\* returns at setup is in the store for the first guarded navigation.
C18_InitialCheckPrecedesGuard ==
  authCalled =>
    /\ (listening \/ defaultRan \/ event.active)
         => /\ lastCheck.ran
            /\ checkLog # <<>> /\ checkLog[1] = 0
    /\ (event.active /\ Len(checkLog) = 1 /\ lastCheck.cand.kind = "object")
         => evToken = lastCheck.cand

\* the first navigation to a guarded state finds the token of the initial
\* check() and is allowed
C18_Witness ==
  /\ authCalled
  /\ checkLog = <<0>>
  /\ lastCheck.cand.kind = "object"
  /\ Guarded
  /\ evToken = lastCheck.cand
  /\ evClaims # <<>>
  /\ Allowed

====
